---- MODULE Spec2Model ----
(***************************************************************************)
(* Model of the bounded, priority-driven crawler of src/scraper_v3.py      *)
(* (class IntelligentScraper).  Python strings that the code inspects      *)
(* character by character (URLs, link texts, context snippets) are         *)
(* sequences of one-character strings, so that substring tests, urlparse   *)
(* and rstrip are computed as the code computes them.  Page texts are      *)
(* sequences of characters too; error messages, which the crawler only     *)
(* concatenates, are kept as whole strings.                                *)
(***************************************************************************)
EXTENDS Integers, Sequences, FiniteSets, TLC

(***************************************************************************)
(* Python string primitives                                                *)
(***************************************************************************)
UpperChars == <<"A","B","C","D","E","F","G","H","I","J","K","L","M",
                "N","O","P","Q","R","S","T","U","V","W","X","Y","Z">>
LowerChars == <<"a","b","c","d","e","f","g","h","i","j","k","l","m",
                "n","o","p","q","r","s","t","u","v","w","x","y","z">>
DigitChars == <<"0","1","2","3","4","5","6","7","8","9">>

\* str.lower() on one character
LowerChar(c) ==
  IF \E i \in 1..26 : UpperChars[i] = c
  THEN LowerChars[CHOOSE i \in 1..26 : UpperChars[i] = c]
  ELSE c

\* str.lower()
Lower(s) == [i \in 1..Len(s) |-> LowerChar(s[i])]

\* k in s  (substring test)
Contains(s, k) ==
  \E i \in 0..(Len(s) - Len(k)) : \A j \in 1..Len(k) : s[i + j] = k[j]

\* s.startswith(k)
StartsWith(s, k) ==
  /\ Len(k) <= Len(s)
  /\ \A j \in 1..Len(k) : s[j] = k[j]

\* s.endswith(k)
EndsWith(s, k) ==
  /\ Len(k) <= Len(s)
  /\ \A j \in 1..Len(k) : s[Len(s) - Len(k) + j] = k[j]

\* s.count(c) for a one-character c
CountChar(s, c) == Cardinality({i \in 1..Len(s) : s[i] = c})

\* 1-based s.find(c, from): the first index >= from holding c, 0 when absent
FindChar(s, c, from) ==
  IF \E i \in from..Len(s) : s[i] = c
  THEN CHOOSE i \in from..Len(s) :
         /\ s[i] = c
         /\ \A j \in from..(i - 1) : s[j] # c
  ELSE 0

\* 1-based s.rfind(c), 0 when absent
RFindChar(s, c) ==
  IF \E i \in 1..Len(s) : s[i] = c
  THEN CHOOSE i \in 1..Len(s) :
         /\ s[i] = c
         /\ \A j \in (i + 1)..Len(s) : s[j] # c
  ELSE 0

\* s.rstrip(c) for a one-character c
RECURSIVE RStrip(_, _)
RStrip(s, c) ==
  IF Len(s) > 0 /\ s[Len(s)] = c
  THEN RStrip(SubSeq(s, 1, Len(s) - 1), c)
  ELSE s

\* s[:n]
Prefix(s, n) == SubSeq(s, 1, IF n < Len(s) THEN n ELSE Len(s))

\* s[n:] with a 1-based first index
Suffix(s, first) == SubSeq(s, first, Len(s))

(***************************************************************************)
(* urllib.parse.urlparse, as used by normalize_url and is_valid_url        *)
(***************************************************************************)
SchemeChars ==
  {UpperChars[i] : i \in 1..26} \cup {LowerChars[i] : i \in 1..26}
    \cup {DigitChars[i] : i \in 1..10} \cup {"+", "-", "."}

IsAsciiAlpha(c) ==
  \E i \in 1..26 : UpperChars[i] = c \/ LowerChars[i] = c

\* schemes for which urlparse splits ";params" off the last path segment
uses_params ==
  { <<>>, <<"f","t","p">>, <<"h","d","l">>, <<"p","r","o","s","p","e","r","o">>,
    <<"h","t","t","p">>, <<"i","m","a","p">>, <<"h","t","t","p","s">>,
    <<"s","h","t","t","p">>, <<"r","t","s","p">>, <<"r","t","s","p","s">>,
    <<"r","t","s","p","u">>, <<"s","i","p">>, <<"s","i","p","s">>,
    <<"m","m","s">>, <<"s","f","t","p">>, <<"t","e","l">> }

\* urlsplit step 1: [scheme, rest]
SplitScheme(url) ==
  LET i == FindChar(url, ":", 1)
  IN IF /\ i > 1
        /\ IsAsciiAlpha(url[1])
        /\ \A j \in 1..(i - 1) : url[j] \in SchemeChars
     THEN [scheme |-> Lower(SubSeq(url, 1, i - 1)), rest |-> Suffix(url, i + 1)]
     ELSE [scheme |-> <<>>, rest |-> url]

\* urlsplit step 2 (_splitnetloc): [netloc, rest]
SplitNetloc(rest) ==
  IF StartsWith(rest, <<"/","/">>)
  THEN LET stops == {i \in 3..Len(rest) : rest[i] \in {"/", "?", "#"}}
           delim == IF stops = {} THEN Len(rest) + 1
                    ELSE CHOOSE i \in stops : \A j \in stops : i <= j
       IN [netloc |-> SubSeq(rest, 3, delim - 1), rest |-> Suffix(rest, delim)]
  ELSE [netloc |-> <<>>, rest |-> rest]

\* s.split(c, 1): [head, tail]; tail is empty when c is absent
SplitOnce(s, c) ==
  LET i == FindChar(s, c, 1)
  IN IF i = 0 THEN [head |-> s, tail |-> <<>>]
     ELSE [head |-> SubSeq(s, 1, i - 1), tail |-> Suffix(s, i + 1)]

\* _splitparams: [head, tail]
SplitParams(s) ==
  LET slash == RFindChar(s, "/")
      i == FindChar(s, ";", IF slash = 0 THEN 1 ELSE slash)
  IN IF i = 0 THEN [head |-> s, tail |-> <<>>]
     ELSE [head |-> SubSeq(s, 1, i - 1), tail |-> Suffix(s, i + 1)]

urlparse(url) ==
  LET s == SplitScheme(url)
      n == SplitNetloc(s.rest)
      f == SplitOnce(n.rest, "#")
      q == SplitOnce(f.head, "?")
      p == IF s.scheme \in uses_params /\ Contains(q.head, <<";">>)
           THEN SplitParams(q.head)
           ELSE [head |-> q.head, tail |-> <<>>]
  IN [scheme |-> s.scheme, netloc |-> n.netloc, path |-> p.head,
      params |-> p.tail, query |-> q.tail, fragment |-> f.tail]

(***************************************************************************)
(* Fixed tables of IntelligentScraper                                       *)
(***************************************************************************)
\* src/scraper_v3.py:34-44
priority_keywords ==
  << <<"a","b","o","u","t">>,
     <<"c","o","m","p","a","n","y">>,
     <<"w","h","o","-","w","e","-","a","r","e">>,
     <<"o","u","r","-","s","t","o","r","y">>,
     <<"o","v","e","r","v","i","e","w">>,
     <<"a","b","o","u","t","-","u","s">>,
     <<"s","e","r","v","i","c","e","s">>,
     <<"s","o","l","u","t","i","o","n","s">>,
     <<"p","r","o","d","u","c","t","s">>,
     <<"w","h","a","t","-","w","e","-","d","o">>,
     <<"o","f","f","e","r","i","n","g","s">>,
     <<"c","a","p","a","b","i","l","i","t","i","e","s">>,
     <<"t","e","c","h","n","o","l","o","g","y">>,
     <<"i","n","n","o","v","a","t","i","o","n">>,
     <<"a","i">>,
     <<"a","r","t","i","f","i","c","i","a","l","-","i","n","t","e","l","l","i","g","e","n","c","e">>,
     <<"d","i","g","i","t","a","l">>,
     <<"m","l">>,
     <<"m","a","c","h","i","n","e","-","l","e","a","r","n","i","n","g">>,
     <<"d","a","t","a">>,
     <<"a","n","a","l","y","t","i","c","s">>,
     <<"a","u","t","o","m","a","t","i","o","n">>,
     <<"c","a","s","e","-","s","t","u","d","i","e","s">>,
     <<"p","o","r","t","f","o","l","i","o">>,
     <<"w","o","r","k">>,
     <<"p","r","o","j","e","c","t","s">>,
     <<"s","u","c","c","e","s","s">>,
     <<"c","l","i","e","n","t","s">>,
     <<"t","e","s","t","i","m","o","n","i","a","l","s">>,
     <<"s","u","c","c","e","s","s","-","s","t","o","r","i","e","s">>,
     <<"c","u","s","t","o","m","e","r","s">>,
     <<"c","a","s","e","-","s","t","u","d","y">>,
     <<"t","e","a","m">>,
     <<"l","e","a","d","e","r","s","h","i","p">>,
     <<"p","e","o","p","l","e">>,
     <<"e","x","e","c","u","t","i","v","e","s">>,
     <<"o","u","r","-","t","e","a","m">>,
     <<"c","a","r","e","e","r","s">>,
     <<"j","o","b","s">>,
     <<"j","o","i","n","-","u","s">>,
     <<"w","o","r","k","-","w","i","t","h","-","u","s">>,
     <<"n","e","w","s">>,
     <<"b","l","o","g">>,
     <<"i","n","s","i","g","h","t","s">>,
     <<"r","e","s","o","u","r","c","e","s">>,
     <<"p","r","e","s","s">> >>

\* src/scraper_v3.py:47-58
priority_link_texts ==
  << <<"a","b","o","u","t"," ","u","s">>,
     <<"a","b","o","u","t">>,
     <<"c","o","m","p","a","n","y">>,
     <<"w","h","o"," ","w","e"," ","a","r","e">>,
     <<"o","u","r"," ","c","o","m","p","a","n","y">>,
     <<"c","o","m","p","a","n","y"," ","i","n","f","o">>,
     <<"a","b","o","u","t"," ","t","h","e"," ","c","o","m","p","a","n","y">>,
     <<"l","e","a","r","n"," ","m","o","r","e">>,
     <<"o","u","r"," ","s","t","o","r","y">>,
     <<"p","r","o","d","u","c","t","s">>,
     <<"o","u","r"," ","p","r","o","d","u","c","t","s">>,
     <<"s","e","r","v","i","c","e","s">>,
     <<"o","u","r"," ","s","e","r","v","i","c","e","s">>,
     <<"s","o","l","u","t","i","o","n","s">>,
     <<"w","h","a","t"," ","w","e"," ","d","o">>,
     <<"o","f","f","e","r","i","n","g","s">>,
     <<"c","a","p","a","b","i","l","i","t","i","e","s">>,
     <<"t","e","c","h","n","o","l","o","g","y">>,
     <<"i","n","n","o","v","a","t","i","o","n">>,
     <<"a","i">>,
     <<"a","r","t","i","f","i","c","i","a","l"," ","i","n","t","e","l","l","i","g","e","n","c","e">>,
     <<"m","a","c","h","i","n","e"," ","l","e","a","r","n","i","n","g">>,
     <<"d","a","t","a"," ","a","n","a","l","y","t","i","c","s">>,
     <<"a","u","t","o","m","a","t","i","o","n">>,
     <<"c","a","s","e"," ","s","t","u","d","i","e","s">>,
     <<"p","o","r","t","f","o","l","i","o">>,
     <<"o","u","r"," ","w","o","r","k">>,
     <<"p","r","o","j","e","c","t","s">>,
     <<"s","u","c","c","e","s","s"," ","s","t","o","r","i","e","s">>,
     <<"c","l","i","e","n","t"," ","s","t","o","r","i","e","s">>,
     <<"c","u","s","t","o","m","e","r"," ","s","u","c","c","e","s","s">>,
     <<"t","e","a","m">>,
     <<"l","e","a","d","e","r","s","h","i","p">>,
     <<"o","u","r"," ","t","e","a","m">>,
     <<"p","e","o","p","l","e">>,
     <<"m","e","e","t"," ","t","h","e"," ","t","e","a","m">>,
     <<"c","a","r","e","e","r","s">>,
     <<"j","o","i","n"," ","u","s">>,
     <<"w","o","r","k"," ","w","i","t","h"," ","u","s">>,
     <<"j","o","b","s">> >>

\* src/scraper_v3.py:177-186
high_value_combos ==
  << <<<<"a","b","o","u","t">>, <<"c","o","m","p","a","n","y">>>>,
     <<<<"o","u","r">>, <<"s","e","r","v","i","c","e","s">>>>,
     <<<<"w","h","a","t">>, <<"d","o">>>>,
     <<<<"c","a","s","e">>, <<"s","t","u","d">>>>,
     <<<<"s","u","c","c","e","s","s">>, <<"s","t","o","r">>>>,
     <<<<"o","u","r">>, <<"t","e","a","m">>>>,
     <<<<"a","r","t","i","f","i","c","i","a","l">>, <<"i","n","t","e","l","l","i","g","e","n","c","e">>>>,
     <<<<"m","a","c","h","i","n","e">>, <<"l","e","a","r","n","i","n","g">>>> >>

\* src/scraper_v3.py:119-125
skip_extensions ==
  << <<".","p","d","f">>,
     <<".","j","p","g">>,
     <<".","j","p","e","g">>,
     <<".","p","n","g">>,
     <<".","g","i","f">>,
     <<".","s","v","g">>,
     <<".","i","c","o">>,
     <<".","z","i","p">>,
     <<".","t","a","r">>,
     <<".","g","z">>,
     <<".","r","a","r">>,
     <<".","d","o","c">>,
     <<".","d","o","c","x">>,
     <<".","x","l","s">>,
     <<".","x","l","s","x">>,
     <<".","p","p","t">>,
     <<".","p","p","t","x">>,
     <<".","m","p","4">>,
     <<".","m","p","3">>,
     <<".","a","v","i">>,
     <<".","m","o","v">>,
     <<".","w","a","v">>,
     <<".","c","s","s">>,
     <<".","j","s">>,
     <<".","x","m","l">>,
     <<".","j","s","o","n">> >>

\* src/scraper_v3.py:130-138
skip_patterns ==
  << <<"l","o","g","i","n">>,
     <<"s","i","g","n","i","n">>,
     <<"s","i","g","n","-","i","n">>,
     <<"s","i","g","n","u","p">>,
     <<"s","i","g","n","-","u","p">>,
     <<"r","e","g","i","s","t","e","r">>,
     <<"c","a","r","t">>,
     <<"c","h","e","c","k","o","u","t">>,
     <<"p","a","y","m","e","n","t">>,
     <<"a","c","c","o","u","n","t">>,
     <<"p","r","o","f","i","l","e">>,
     <<"s","e","a","r","c","h">>,
     <<"f","i","l","t","e","r">>,
     <<"s","o","r","t">>,
     <<"p","r","i","v","a","c","y">>,
     <<"t","e","r","m","s">>,
     <<"c","o","o","k","i","e">>,
     <<"l","e","g","a","l">>,
     <<"d","i","s","c","l","a","i","m","e","r">>,
     <<"w","p","-","a","d","m","i","n">>,
     <<"w","p","-","c","o","n","t","e","n","t">>,
     <<"w","p","-","i","n","c","l","u","d","e","s">>,
     <<"f","e","e","d">>,
     <<"r","s","s">>,
     <<"a","t","o","m">>,
     <<"#">>,
     <<"j","a","v","a","s","c","r","i","p","t",":">>,
     <<"m","a","i","l","t","o",":">>,
     <<"t","e","l",":">> >>


(***************************************************************************)
(* IntelligentScraper: pure helpers                                        *)
(***************************************************************************)
\* any(...) / for ... in a Python list held as a sequence
Range(seq) == {seq[i] : i \in 1..Len(seq)}

\* the alternatives of each pattern of self.enterprise_patterns, in the
\* order the regular expression tries them; \s+ is taken at a single space
\* and a pattern with \d is represented by one instance of it
enterprise_patterns ==
  [ fortune |-> << <<"f","o","r","t","u","n","e"," ","5","0","0">>,
                   <<"f","o","r","t","u","n","e"," ","1","0","0">> >>,
    publicly_traded |-> << <<"p","u","b","l","i","c","l","y"," ","t","r","a","d","e","d">>,
                           <<"p","u","b","l","i","c","l","y","-","t","r","a","d","e","d">>,
                           <<"p","u","b","l","i","c"," ","c","o","m","p","a","n","y">>,
                           <<"t","r","a","d","e","d"," ","o","n">> >>,
    stock_exchange |-> << <<"n","a","s","d","a","q">>,
                          <<"n","y","s","e">>,
                          <<"d","o","w"," ","j","o","n","e","s">>,
                          <<"s","&","p"," ","5","0","0">> >>,
    large_valuation |-> << <<"$","1","b"," ","v","a","l","u","a","t","i","o","n">> >>,
    large_workforce |-> << <<"1","0",",","0","0","0","+"," ","e","m","p","l","o","y","e","e","s">> >>,
    multinational |-> << <<"m","u","l","t","i","n","a","t","i","o","n","a","l"," ",
                           "c","o","r","p","o","r","a","t","i","o","n">> >>,
    global_offices |-> << <<"o","f","f","i","c","e","s"," ","i","n"," ","1","0"," ",
                            "c","o","u","n","t","r","i","e","s">> >>,
    large_revenue |-> << <<"$","1","b"," ","i","n"," ","r","e","v","e","n","u","e">> >> ]

\* alts[a] occurs in s at position i
MatchesAt(s, i, k) ==
  /\ i + Len(k) - 1 <= Len(s)
  /\ \A j \in 1..Len(k) : s[i + j - 1] = k[j]

\* re.findall(pattern, s): leftmost, non-overlapping matches, scanning from i
RECURSIVE FindAllFrom(_, _, _)
FindAllFrom(alts, s, i) ==
  IF i > Len(s) THEN <<>>
  ELSE LET hits == {a \in 1..Len(alts) : MatchesAt(s, i, alts[a])}
       IN IF hits = {} THEN FindAllFrom(alts, s, i + 1)
          ELSE LET a == CHOOSE h \in hits : \A g \in hits : h <= g
               IN <<alts[a]>> \o FindAllFrom(alts, s, i + Len(alts[a]))

detect_enterprise_signals(text) ==
  LET text_lower == Lower(text)
      found == [name \in DOMAIN enterprise_patterns |->
                  FindAllFrom(enterprise_patterns[name], text_lower, 1)]
  IN [name \in {n \in DOMAIN enterprise_patterns : found[n] # <<>>} |-> found[name]]

\* str.strip() of whitespace
RECURSIVE LStripSpace(_)
LStripSpace(s) ==
  IF Len(s) > 0 /\ s[1] = " " THEN LStripSpace(Tail(s)) ELSE s

Strip(s) == RStrip(LStripSpace(s), " ")

\* lang is what langdetect.detect returns on the sample: a language code,
\* or "LangDetectException" when it raises
is_english(text, lang) ==
  IF Len(text) = 0 \/ Len(Strip(text)) < 50 THEN TRUE
  ELSE IF lang = "LangDetectException" THEN TRUE
  ELSE lang = "en"

\* fault variant of normalize_url: the query string is kept
normalize_url_keep_query(url) ==
  LET parsed == urlparse(url)
      path == RStrip(parsed.path, "/")
  IN parsed.scheme \o <<":","/","/">> \o parsed.netloc \o path
       \o (IF parsed.query = <<>> THEN <<>> ELSE <<"?">> \o parsed.query)

normalize_url(url) ==
  LET parsed == urlparse(url)
      path == RStrip(parsed.path, "/")
  IN parsed.scheme \o <<":","/","/">> \o parsed.netloc \o path

is_valid_url(url, domain) ==
  LET parsed == urlparse(url)
      url_lower == Lower(url)
  IN IF ~Contains(parsed.netloc, domain) THEN FALSE
     ELSE IF \E ext \in Range(skip_extensions) : EndsWith(Lower(parsed.path), ext)
          THEN FALSE
     ELSE IF \E pattern \in Range(skip_patterns) : Contains(url_lower, pattern)
          THEN FALSE
     ELSE TRUE

\* number of list entries for which the test holds
CountMatches(list, s) ==
  Cardinality({i \in 1..Len(list) : Contains(s, list[i])})

score_url_priority(url, link_text, anchor_context) ==
  LET url_lower == Lower(url)
      text_lower == Strip(Lower(link_text))
      context_lower == Strip(Lower(anchor_context))
      urlScore == 10 * CountMatches(priority_keywords, url_lower)
      textScore == IF \E p \in Range(priority_link_texts) : Contains(text_lower, p)
                   THEN 20 ELSE 0
      contextScore == IF \E k \in Range(priority_keywords) : Contains(context_lower, k)
                      THEN 5 ELSE 0
      path_depth == CountChar(url_lower, "/")
      penalty == IF path_depth > 3 THEN (path_depth - 3) * 2 ELSE 0
      combined == url_lower \o <<" ">> \o text_lower \o <<" ">> \o context_lower
      comboScore == 25 * Cardinality({i \in 1..Len(high_value_combos) :
                           /\ Contains(combined, high_value_combos[i][1])
                           /\ Contains(combined, high_value_combos[i][2])})
      score == urlScore + textScore + contextScore - penalty + comboScore
  IN IF score = 0 /\ Len(url_lower) > 0 THEN 1 ELSE score

(***************************************************************************)
(* Bounds of the model and the site the crawler is run against             *)
(***************************************************************************)
\* max_pages is configured in 0..MaxPagesBound
MaxPagesBound == 3
\* the homepage carries at most MaxLinks anchors
MaxLinks == 3
\* crawl_website is called at most MaxCrawls times on one scraper
MaxCrawls == 2
\* time is counted in tenths of a second
FastFetch == 1
\* session.get(url, timeout=7): a request that runs into the timeout
RequestTimeout == 70
\* time.sleep(0.1)
SleepTicks == 1
\* the scraper is constructed with timeout=0.3, IntelligentScraper(max_pages,
\* 0.3): long enough for three fast requests, shorter than a slow one
ConfiguredTimeout == 3

MaxPagesChoices == 0..MaxPagesBound
FetchDurations == {FastFetch, RequestTimeout}

\* a bare domain, a URL with its scheme, and a bare domain whose name
\* begins with the letters http
Seeds ==
  { <<"e",".","c","o">>,
    <<"h","t","t","p","s",":","/","/","e",".","c","o","/">>,
    <<"h","t","t","p",".","c","o">> }

UrlAbout == <<"h","t","t","p","s",":","/","/","e",".","c","o","/","a","b","o","u","t">>
UrlAboutQuery == <<"h","t","t","p","s",":","/","/","e",".","c","o","/","a","b","o","u","t","?","p">>
UrlTeam == <<"h","t","t","p","s",":","/","/","e",".","c","o","/","t","e","a","m">>
UrlX == <<"h","t","t","p","s",":","/","/","e",".","c","o","/","x">>
UrlLogin == <<"h","t","t","p","s",":","/","/","e",".","c","o","/","l","o","g","i","n">>
UrlRoot == <<"h","t","t","p","s",":","/","/","e",".","c","o","/">>
UrlXFile == <<"h","t","t","p","s",":","/","/","e",".","c","o","/","x","?","f",".","p","d","f">>
UrlXY == <<"h","t","t","p","s",":","/","/","e",".","c","o","/","x","/","y">>

\* the anchors a homepage may carry: links_data entries of scrape_page
HomepageAnchors ==
  { [url |-> UrlAbout, text |-> <<"A","b","o","u","t"," ","U","s">>, context |-> <<>>],
    [url |-> UrlAboutQuery, text |-> <<"A","b","o","u","t"," ","U","s">>, context |-> <<>>],
    [url |-> UrlTeam, text |-> <<"T","e","a","m">>, context |-> <<>>],
    [url |-> UrlX, text |-> <<>>, context |-> <<>>],
    [url |-> UrlLogin, text |-> <<"L","o","g","i","n">>, context |-> <<>>],
    [url |-> UrlRoot, text |-> <<"H","o","m","e">>, context |-> <<>>],
    [url |-> UrlXFile, text |-> <<>>, context |-> <<>>],
    [url |-> UrlXY, text |-> <<>>, context |-> <<>>] }

AnchorLists == UNION {[1..n -> HomepageAnchors] : n \in 0..MaxLinks}

\* the normalized text the site serves at a URL
SiteBody(url) ==
  LET n == normalize_url(url)
  IN IF n = UrlAbout THEN <<"n","y","s","e"," ","n","a","s","d","a","q">>
     ELSE IF n = UrlTeam THEN <<"f","o","r","t","u","n","e"," ","5","0","0">>
     ELSE IF n = UrlX THEN <<>>
     ELSE <<"o","n"," ","n","a","s","d","a","q">>

\* a text of 55 characters in another language
ForeignBody ==
  <<"n","o","u","s"," ","s","o","m","m","e","s"," ","u","n","e"," ",
    "e","n","t","r","e","p","r","i","s","e"," ","d","e"," ",
    "l","o","g","i","c","i","e","l","s"," ","a"," ","p","a","r","i","s"," ",
    "e","t"," ","l","y","o","n">>

\* if not start_url.startswith('http'): start_url = 'https://' + start_url
seed_url(seed) ==
  IF ~StartsWith(seed, <<"h","t","t","p">>)
  THEN <<"h","t","t","p","s",":","/","/">> \o seed
  ELSE seed

(***************************************************************************)
(* The string functions are evaluated once for every string the site can   *)
(* put before the crawler; the actions read their values from these        *)
(* tables.                                                                 *)
(***************************************************************************)
SiteUrls == {seed_url(s) : s \in Seeds} \cup {a.url : a \in HomepageAnchors}
SiteDomains == {urlparse(seed_url(s)).netloc : s \in Seeds}
SiteBodies == {SiteBody(u) : u \in SiteUrls} \cup {ForeignBody}

\* f as an explicit table: f is then evaluated once per argument
Table(f) == f @@ <<>>

normalized_of == Table([u \in SiteUrls |-> normalize_url(u)])
valid_of ==
  Table([p \in SiteUrls \X SiteDomains |-> is_valid_url(p[1], p[2])])
score_of ==
  Table([a \in HomepageAnchors |-> score_url_priority(a.url, a.text, a.context)])
body_of == Table([u \in SiteUrls |-> SiteBody(u)])
english_of ==
  Table([p \in SiteBodies \X {"en", "fr", "LangDetectException"} |->
           is_english(p[1], p[2])])
signals_of == Table([t \in SiteBodies |-> Table(detect_enterprise_signals(t))])
scheme_of == Table([u \in SiteUrls |-> urlparse(u).scheme])

\* the anchors a page other than the homepage may carry: none, or a link to
\* the team page
CandidateAnchorLists ==
  { <<>>,
    << [url |-> UrlTeam, text |-> <<"T","e","a","m">>, context |-> <<>>] >> }

\* what one request can bring back: the HTTP status, the normalized text of
\* the body, the verdict of langdetect on it and the anchors of the page
\* session.get raises MissingSchema, before anything is sent, for a URL
\* without a scheme: status 0 stands for a request that raised, and fault
\* names the exception
Responses(url, anchorLists) ==
  IF scheme_of[url] = <<>>
  THEN { [status |-> 0, fault |-> "MissingSchema", body |-> <<>>, lang |-> "en",
          anchors |-> <<>>] }
  ELSE { [status |-> 404, fault |-> "none", body |-> <<>>, lang |-> "en",
          anchors |-> <<>>] }
    \cup { [status |-> 200, fault |-> "none", body |-> body_of[url], lang |-> l,
            anchors |-> a] :
             l \in {"en", "fr"}, a \in anchorLists }
    \cup { [status |-> 200, fault |-> "none", body |-> ForeignBody, lang |-> "fr",
            anchors |-> a] :
             a \in anchorLists }

(***************************************************************************)
(* scrape_page and the list operations of crawl_website                    *)
(***************************************************************************)
\* the soup and the company name derived from it are left out: the crawl
\* logic never reads them
\* session.get raised (status 0), raise_for_status raised (a status of 400
\* or more), BeautifulSoup or the text extraction raised (a fault on a
\* response that was received): the except branch returns str(e)
scrape_page(url, resp) ==
  IF resp.status = 0
  THEN [url |-> url, text |-> <<>>, links |-> <<>>, success |-> FALSE,
        error |-> <<resp.fault>>]
  ELSE IF resp.status >= 400
  THEN [url |-> url, text |-> <<>>, links |-> <<>>, success |-> FALSE,
        error |-> <<"HTTPError">>]
  ELSE IF resp.fault # "none"
  THEN [url |-> url, text |-> <<>>, links |-> <<>>, success |-> FALSE,
        error |-> <<resp.fault>>]
  ELSE IF ~english_of[<<resp.body, resp.lang>>]
  THEN [url |-> url, text |-> <<>>, links |-> <<>>, success |-> FALSE,
        error |-> <<"Non-English content">>]
  ELSE [url |-> url, text |-> resp.body, links |-> resp.anchors, success |-> TRUE,
        enterprise_signals |-> signals_of[resp.body]]

\* fault variant of MergeSignals: a match that is already in the list is not
\* added again
MergeSignals_dedup(all, page_signals) ==
  [name \in (DOMAIN all) \cup (DOMAIN page_signals) |->
     (IF name \in DOMAIN all THEN all[name] ELSE <<>>)
       \o (IF name \in DOMAIN page_signals
           THEN SelectSeq(page_signals[name],
                          LAMBDA m : name \notin DOMAIN all \/ m \notin Range(all[name]))
           ELSE <<>>)]

\* all_signals[signal_type].extend(matches) for every signal of the page
MergeSignals(all, page_signals) ==
  [name \in (DOMAIN all) \cup (DOMAIN page_signals) |->
     (IF name \in DOMAIN all THEN all[name] ELSE <<>>)
       \o (IF name \in DOMAIN page_signals THEN page_signals[name] ELSE <<>>)]

\* the loop over homepage['links'] that fills scored_links
RECURSIVE ScoreLinks(_, _, _)
ScoreLinks(links, visited, base) ==
  IF links = <<>> THEN <<>>
  ELSE LET link_data == links[Len(links)]
           before == ScoreLinks(SubSeq(links, 1, Len(links) - 1), visited, base)
           link_url == link_data.url
           normalized == normalized_of[link_url]
           score == score_of[link_data]
       IN IF normalized \in visited THEN before
          ELSE IF ~valid_of[<<link_url, base>>] THEN before
          ELSE IF score > 0 THEN Append(before, <<score, link_url, link_data.text>>)
          ELSE before

\* fault variant of InsertByScore: x goes in front of the entries of its score,
\* as a sort that is not stable may place it
InsertByScore_unstable(sorted, x) ==
  LET p == Cardinality({i \in 1..Len(sorted) : sorted[i][1] > x[1]})
  IN SubSeq(sorted, 1, p) \o <<x>> \o SubSeq(sorted, p + 1, Len(sorted))

\* list.sort(reverse=True, key=lambda x: x[0]): stable, descending
InsertByScore(sorted, x) ==
  LET p == Cardinality({i \in 1..Len(sorted) : sorted[i][1] >= x[1]})
  IN SubSeq(sorted, 1, p) \o <<x>> \o SubSeq(sorted, p + 1, Len(sorted))

RECURSIVE SortByScore(_)
SortByScore(s) ==
  IF s = <<>> THEN <<>>
  ELSE InsertByScore(SortByScore(SubSeq(s, 1, Len(s) - 1)), s[Len(s)])

\* s[:n], n possibly negative
SliceTo(s, n) ==
  IF n >= 0 THEN SubSeq(s, 1, IF n < Len(s) THEN n ELSE Len(s))
  ELSE SubSeq(s, 1, IF Len(s) + n > 0 THEN Len(s) + n ELSE 0)

(***************************************************************************)
(* State                                                                   *)
(***************************************************************************)
VARIABLES
  max_pages,       \* self.max_pages
  timeout,         \* self.timeout
  visited_urls,    \* self.visited_urls
  pc,              \* "idle", "homepage", "loop" or "done": where crawl_website stands
  start_url,       \* the seed after the scheme was added
  base_domain,     \* urlparse(start_url).netloc
  results,         \* the dict crawl_website returns
  all_signals,     \* the local all_signals
  homepage,        \* the record scrape_page returned for the homepage
  scored_links,    \* the local scored_links, after the sort
  priority_links,  \* the local priority_links
  idx,             \* position of the for loop in priority_links
  broke,           \* the timeout check left the loop
  elapsed,         \* time.time() - start_time
  get_calls,       \* the session.get calls of this crawl: <<url, success>>
  skipped,         \* positions of priority_links passed over as already visited
  crawls,          \* calls of crawl_website made on this scraper
  loop_page,       \* the local page of the loop: what scrape_page last returned
  fn_call          \* a call of one of the URL functions: its inputs and its result

vars == << max_pages, timeout, visited_urls, pc, start_url, base_domain, results,
           all_signals, homepage, scored_links, priority_links, idx, broke,
           elapsed, get_calls, skipped, crawls, loop_page, fn_call >>

NoPage == [success |-> FALSE, links |-> <<>>]
NoSignals == [name \in {} |-> <<>>]

EmptyResults ==
  [base_url |-> <<>>, pages_scraped |-> <<>>, total_text |-> <<>>,
   page_count |-> 0, enterprise_signals |-> NoSignals]

\* no URL function is under examination
NoCall == [fn |-> "none"]

\* IntelligentScraper(max_pages, timeout)
Init ==
  /\ max_pages \in MaxPagesChoices
  /\ timeout = ConfiguredTimeout
  /\ visited_urls = {}
  /\ pc = "idle"
  /\ start_url = <<>>
  /\ base_domain = <<>>
  /\ results = EmptyResults
  /\ all_signals = NoSignals
  /\ homepage = NoPage
  /\ scored_links = <<>>
  /\ priority_links = <<>>
  /\ idx = 1
  /\ broke = FALSE
  /\ elapsed = 0
  /\ get_calls = <<>>
  /\ skipped = {}
  /\ crawls = 0
  /\ loop_page = NoPage
  /\ fn_call = NoCall

(***************************************************************************)
(* crawl_website                                                           *)
(***************************************************************************)
\* entry of crawl_website, up to the try
crawl_begin(seed) ==
  /\ pc \in {"idle", "done"}
  /\ crawls < MaxCrawls
  /\ LET url == seed_url(seed)
     IN /\ start_url' = url
        /\ base_domain' = urlparse(url).netloc
        /\ results' = [EmptyResults EXCEPT !.base_url = url]
  /\ all_signals' = NoSignals
  /\ homepage' = NoPage
  /\ scored_links' = <<>>
  /\ priority_links' = <<>>
  /\ idx' = 1
  /\ broke' = FALSE
  /\ elapsed' = 0
  /\ get_calls' = <<>>
  /\ skipped' = {}
  /\ crawls' = crawls + 1
  /\ loop_page' = NoPage
  /\ pc' = "homepage"
  /\ UNCHANGED << max_pages, timeout, visited_urls, fn_call >>

\* fault variant of Finalize: every return after the loop reports an error
Finalize_with_error(res, signals) ==
  [res EXCEPT !.enterprise_signals = signals] @@ [error |-> <<"Timeout reached">>]

\* results['enterprise_signals'] = all_signals; return results
Finalize(res, signals) == [res EXCEPT !.enterprise_signals = signals]

\* fault variant of FailedResult: the error field is not set
FailedResult_no_error(res, page) == res

\* if not homepage['success']: results['error'] = ...; return results
FailedResult(res, page) ==
  res @@ [error |-> <<"Failed to scrape: ">> \o page.error]

\* fault variant of StoreHomepage: the homepage text is left out of the corpus
StoreHomepage_no_text(res, url, page) ==
  [res EXCEPT
     !.pages_scraped = Append(@,
        [url |-> url, title |-> <<"H","o","m","e","p","a","g","e">>,
         text_length |-> Len(page.text)]),
     !.page_count = 1]

\* "Store homepage": the page record, the corpus text and page_count = 1
StoreHomepage(res, url, page) ==
  [res EXCEPT
     !.pages_scraped = Append(@,
        [url |-> url, title |-> <<"H","o","m","e","p","a","g","e">>,
         text_length |-> Len(page.text)]),
     !.total_text = @ \o page.text \o <<"\n","\n">>,
     !.page_count = 1]

\* fault variant of MarkVisited: the URL is never added
MarkVisited_never(visited, normalized, page) == visited

\* fault variant of MarkVisited: the URL is added before the outcome is known
MarkVisited_always(visited, normalized, page) == visited \cup {normalized}

\* if page['success']: self.visited_urls.add(normalized)
MarkVisited(visited, normalized, page) ==
  IF page.success THEN visited \cup {normalized} ELSE visited

\* if page['success']: the signals of the page are merged into all_signals
CollectSignals(all, page) ==
  IF page.success THEN MergeSignals(all, page.enterprise_signals) ELSE all

\* fault variant of StorePage: page_count is not incremented
StorePage_no_count(res, url, link_text, page) ==
  IF page.success
  THEN [res EXCEPT
          !.pages_scraped = Append(@,
             [url |-> url, title |-> link_text, text_length |-> Len(page.text)]),
          !.total_text = @ \o page.text]
  ELSE res

\* if page['success']: the page record, the corpus text and page_count += 1
StorePage(res, url, link_text, page) ==
  LET title == IF link_text # <<>> THEN Prefix(link_text, 50)
               ELSE <<"P","a","g","e">>
  IN IF page.success
     THEN [res EXCEPT
             !.pages_scraped = Append(@,
                [url |-> url, title |-> title, text_length |-> Len(page.text)]),
             !.total_text = @ \o <<"\n","\n","=","=","="," ">> \o title
                              \o <<" ","=","=","=","\n","\n">> \o page.text,
             !.page_count = @ + 1]
     ELSE res

\* the code that follows scrape_page(start_url), for the page it returned
homepage_body(page, secs) ==
  /\ get_calls' = Append(get_calls, <<start_url, page.success>>)
  /\ elapsed' = elapsed + secs
  /\ homepage' = page
  /\ IF ~page.success
     THEN /\ results' = FailedResult(results, page)
          /\ pc' = "done"
          /\ UNCHANGED << visited_urls, all_signals, scored_links, priority_links >>
     ELSE /\ all_signals' = MergeSignals(all_signals, page.enterprise_signals)
          /\ visited_urls' = visited_urls \cup {normalized_of[start_url]}
          /\ results' = StoreHomepage(results, start_url, page)
          /\ scored_links' =
               SortByScore(ScoreLinks(page.links, visited_urls', base_domain))
          /\ priority_links' = SliceTo(scored_links', max_pages - 1)
          /\ pc' = "loop"

\* the homepage is scraped; on success it is stored and its links are
\* scored, sorted and cut to priority_links
scrape_homepage(resp, secs) ==
  /\ pc = "homepage"
  /\ homepage_body(scrape_page(start_url, resp), secs)
  /\ UNCHANGED << max_pages, timeout, start_url, base_domain, idx, broke,
                  skipped, crawls,
                  loop_page, fn_call >>

InLoop == pc = "loop" /\ idx <= Len(priority_links)

\* fault variant of TimeoutReached: the elapsed time is never found too long
TimeoutReached_never == FALSE

TimeoutReached == elapsed > timeout

\* if time.time() - start_time > self.timeout: break, and the code after
\* the loop
loop_timeout ==
  /\ InLoop
  /\ TimeoutReached
  /\ broke' = TRUE
  /\ results' = Finalize(results, all_signals)
  /\ pc' = "done"
  /\ UNCHANGED << max_pages, timeout, visited_urls, start_url, base_domain,
                  all_signals, homepage, scored_links, priority_links, idx,
                  elapsed, get_calls, skipped, crawls,
                  loop_page, fn_call >>

\* if normalized in self.visited_urls: continue
loop_skip_visited ==
  /\ InLoop
  /\ ~TimeoutReached
  /\ normalized_of[priority_links[idx][2]] \in visited_urls
  /\ skipped' = skipped \cup {idx}
  /\ idx' = idx + 1
  /\ UNCHANGED << max_pages, timeout, visited_urls, pc, start_url, base_domain,
                  results, all_signals, homepage, scored_links, priority_links,
                  broke, elapsed, get_calls, crawls,
                  loop_page, fn_call >>

\* the loop body from the visited check on, for the page that scrape_page
\* returned
loop_body(url, link_text, normalized, page, secs) ==
  /\ normalized \notin visited_urls
  /\ get_calls' = Append(get_calls, <<url, page.success>>)
  /\ visited_urls' = MarkVisited(visited_urls, normalized, page)
  /\ all_signals' = CollectSignals(all_signals, page)
  /\ results' = StorePage(results, url, link_text, page)
  /\ elapsed' = elapsed + secs + SleepTicks
  /\ loop_page' = page

\* fault variant of loop_scrape: a failed candidate ends the crawl
loop_scrape_abort(resp, secs) ==
  /\ InLoop
  /\ ~TimeoutReached
  /\ loop_body(priority_links[idx][2], priority_links[idx][3],
               normalized_of[priority_links[idx][2]],
               scrape_page(priority_links[idx][2], resp), secs)
  /\ idx' = idx + 1
  /\ pc' = IF resp.status = 200 /\ english_of[<<resp.body, resp.lang>>]
           THEN "loop" ELSE "done"
  /\ UNCHANGED << max_pages, timeout, start_url, base_domain, homepage,
                  scored_links, priority_links, broke, skipped, crawls,
                  fn_call >>

\* fault variant of loop_scrape: the links of the page just scraped are put
\* at the end of priority_links, as a crawler that follows links would do
loop_scrape_follow(resp, secs) ==
  /\ InLoop
  /\ ~TimeoutReached
  /\ loop_body(priority_links[idx][2], priority_links[idx][3],
               normalized_of[priority_links[idx][2]],
               scrape_page(priority_links[idx][2], resp), secs)
  /\ idx' = idx + 1
  /\ priority_links' =
       priority_links \o [i \in 1..Len(loop_page'.links) |->
                            <<1, loop_page'.links[i].url, loop_page'.links[i].text>>]
  /\ UNCHANGED << max_pages, timeout, pc, start_url, base_domain, homepage,
                  scored_links, broke, skipped, crawls,
                  fn_call >>

\* fault variant of loop_scrape: a candidate whose scrape failed is scraped
\* again
loop_scrape_retry(resp, secs) ==
  /\ InLoop
  /\ ~TimeoutReached
  /\ loop_body(priority_links[idx][2], priority_links[idx][3],
               normalized_of[priority_links[idx][2]],
               scrape_page(priority_links[idx][2], resp), secs)
  /\ idx' = IF loop_page'.success THEN idx + 1 ELSE idx
  /\ UNCHANGED << max_pages, timeout, pc, start_url, base_domain, homepage,
                  scored_links, priority_links, broke, skipped, crawls,
                  fn_call >>

\* one candidate is scraped, stored on success, and the loop sleeps
loop_scrape(resp, secs) ==
  /\ InLoop
  /\ ~TimeoutReached
  /\ loop_body(priority_links[idx][2], priority_links[idx][3],
               normalized_of[priority_links[idx][2]],
               scrape_page(priority_links[idx][2], resp), secs)
  /\ idx' = idx + 1
  /\ UNCHANGED << max_pages, timeout, pc, start_url, base_domain, homepage,
                  scored_links, priority_links, broke, skipped, crawls,
                  fn_call >>

\* the loop ran out of priority_links: the code after the loop
crawl_return ==
  /\ pc = "loop"
  /\ idx > Len(priority_links)
  /\ results' = Finalize(results, all_signals)
  /\ pc' = "done"
  /\ UNCHANGED << max_pages, timeout, visited_urls, start_url, base_domain,
                  all_signals, homepage, scored_links, priority_links, idx, broke,
                  elapsed, get_calls, skipped, crawls,
                  loop_page, fn_call >>

\* The handler "except Exception" of crawl_website (lines 433-435) has no
\* action: scrape_page catches every exception itself, and the rest of the
\* try body works on strings, lists and dicts that scrape_page has built.
Next ==
  \/ \E seed \in Seeds : crawl_begin(seed)
  \/ /\ pc = "homepage"
     /\ \E resp \in Responses(start_url, AnchorLists), secs \in FetchDurations :
          scrape_homepage(resp, secs)
  \/ loop_timeout
  \/ loop_skip_visited
  \/ /\ InLoop
     /\ \E resp \in Responses(priority_links[idx][2], CandidateAnchorLists),
           secs \in FetchDurations :
          loop_scrape(resp, secs)
  \/ crawl_return

Spec == Init /\ [][Next]_vars

\* the request for the homepage ends.  The step is written for a homepage
\* that fails or carries no link: it is enabled exactly while the call
\* stands before the request, and a homepage request of any outcome
\* disables it, so that its weak fairness says no more than that the call
\* does not wait at the request forever
HomepageAnswered ==
  /\ pc = "homepage"
  /\ \E resp \in Responses(start_url, {<<>>}), secs \in FetchDurations :
       scrape_homepage(resp, secs)

\* a step of the loop over priority_links, or the return that follows it
LoopStep ==
  \/ loop_timeout
  \/ loop_skip_visited
  \/ /\ InLoop
     /\ \E resp \in Responses(priority_links[idx][2], CandidateAnchorLists),
           secs \in FetchDurations :
          loop_scrape(resp, secs)
  \/ crawl_return

\* crawl_website runs in one thread and every request ends, after 7 seconds
\* at the latest with a timeout: a call that is under way does not stay at
\* the homepage request or in the loop forever.  Nothing is assumed about
\* the outcome of a request, nor about the caller making another call
LiveSpec == Init /\ [][Next]_vars /\ WF_vars(HomepageAnswered) /\ WF_vars(LoopStep)

(***************************************************************************)
(* The URL functions on their own: a call of normalize_url, is_valid_url   *)
(* or score_url_priority on inputs put together from the parts below       *)
(***************************************************************************)
\* with and without a scheme
SchemeParts ==
  { <<"h","t","t","p","s",":","/","/">>,
    <<>> }

\* the host of the seed, a host that contains it, and a foreign host
HostParts ==
  { <<"e",".","c","o">>,
    <<"h","o","m","e",".","c","o","m">>,
    <<"x",".","o","r","g">> }

\* paths of several depths, with and without topical keywords, a utility
\* page and a file
PathParts ==
  { <<>>,
    <<"/","x">>,
    <<"/","x","/","y">>,
    <<"/","x","/","y","/","z","/","w">>,
    <<"/","a","b","o","u","t">>,
    <<"/","a","b","o","u","t","-","a","b","o","u","t">>,
    <<"/","a","b","o","u","t","-","t","e","a","m">>,
    <<"/","l","o","g","i","n">>,
    <<"/","f",".","p","d","f">> }

\* nothing, a trailing slash, a fragment, a query string
TailParts ==
  { <<>>,
    <<"/">>,
    <<"#","f">>,
    <<"?","q">> }

\* link texts
TextInputs ==
  { <<>>,
    <<"A","b","o","u","t"," ","U","s">>,
    <<"M","o","r","e">> }

\* context snippets
ContextInputs ==
  { <<>>,
    <<"o","u","r"," ","t","e","a","m">> }

UrlInputs ==
  {s \o h \o p \o t : s \in SchemeParts, h \in HostParts, p \in PathParts, t \in TailParts}

\* the inputs of a call that is still to be made; the base domain is that
\* of a seed whose homepage can be fetched, as the functions are called
\* only after the homepage was scraped
CallInputs ==
  [fn : {"none"}, url : UrlInputs, text : TextInputs, context : ContextInputs,
   domain : SiteDomains \ {<<>>}]

\* a scraper on which no crawl runs, and the inputs of one call
FnInit ==
  /\ max_pages = MaxPagesBound
  /\ timeout = ConfiguredTimeout
  /\ visited_urls = {}
  /\ pc = "idle"
  /\ start_url = <<>>
  /\ base_domain = <<>>
  /\ results = EmptyResults
  /\ all_signals = NoSignals
  /\ homepage = NoPage
  /\ scored_links = <<>>
  /\ priority_links = <<>>
  /\ idx = 1
  /\ broke = FALSE
  /\ elapsed = 0
  /\ get_calls = <<>>
  /\ skipped = {}
  /\ crawls = 0
  /\ loop_page = NoPage
  /\ fn_call \in CallInputs

\* the variables of a crawl
crawl_vars ==
  << max_pages, timeout, visited_urls, pc, start_url, base_domain, results,
     all_signals, homepage, scored_links, priority_links, idx, broke, elapsed,
     get_calls, skipped, crawls, loop_page >>

\* self.normalize_url(url)
call_normalize_url ==
  /\ fn_call.fn = "none"
  /\ fn_call' = [fn_call EXCEPT !.fn = "normalize_url"]
                  @@ [ret |-> normalize_url(fn_call.url)]
  /\ UNCHANGED crawl_vars

\* self.normalize_url applied to what self.normalize_url returned
call_normalize_url_again ==
  /\ fn_call.fn = "normalize_url"
  /\ fn_call' = [fn_call EXCEPT !.fn = "normalize_url twice",
                                !.ret = normalize_url(fn_call.ret)]
  /\ UNCHANGED crawl_vars

\* self.is_valid_url(url, base_domain)
call_is_valid_url ==
  /\ fn_call.fn = "none"
  /\ fn_call' = [fn_call EXCEPT !.fn = "is_valid_url"]
                  @@ [ret |-> is_valid_url(fn_call.url, fn_call.domain)]
  /\ UNCHANGED crawl_vars

\* self.score_url_priority(url, link_text, anchor_context)
call_score_url_priority ==
  /\ fn_call.fn = "none"
  /\ fn_call' = [fn_call EXCEPT !.fn = "score_url_priority"]
                  @@ [ret |-> score_url_priority(fn_call.url, fn_call.text,
                                                 fn_call.context)]
  /\ UNCHANGED crawl_vars

FnNext ==
  \/ call_normalize_url
  \/ call_normalize_url_again
  \/ call_is_valid_url
  \/ call_score_url_priority

FnSpec == FnInit /\ [][FnNext]_vars

(***************************************************************************)
(* scrape_page on its own: one call, for every way its request and the     *)
(* processing of the response can end                                      *)
(***************************************************************************)
\* the request raises (a URL without a scheme, a transport error, a
\* timeout), the server answers with an error status, the parser raises, or
\* the page is received: its text is that of the site or a text in another
\* language, and langdetect names a language or raises
PageOutcomes(url) ==
  IF scheme_of[url] = <<>>
  THEN { [status |-> 0, fault |-> "MissingSchema", body |-> <<>>, lang |-> "en",
          anchors |-> <<>>] }
  ELSE { [status |-> 0, fault |-> f, body |-> <<>>, lang |-> "en", anchors |-> <<>>] :
           f \in {"ConnectionError", "Timeout"} }
    \cup { [status |-> st, fault |-> "none", body |-> <<>>, lang |-> "en",
            anchors |-> <<>>] : st \in {404, 500} }
    \cup { [status |-> 200, fault |-> "ParserError", body |-> body_of[url],
            lang |-> "en", anchors |-> <<>>] }
    \cup { [status |-> 200, fault |-> "none", body |-> b, lang |-> l, anchors |-> a] :
             b \in {body_of[url], ForeignBody},
             l \in {"en", "fr", "LangDetectException"},
             a \in CandidateAnchorLists }

\* the inputs of a call of scrape_page that is still to be made, with the
\* outcome its request will have
PageInputs ==
  UNION { { [fn |-> "none", url |-> u, resp |-> r, requests |-> 0] :
              r \in PageOutcomes(u) } : u \in SiteUrls }

\* a scraper on which no crawl runs, and the inputs of one call
PageInit ==
  /\ max_pages = MaxPagesBound
  /\ timeout = ConfiguredTimeout
  /\ visited_urls = {}
  /\ pc = "idle"
  /\ start_url = <<>>
  /\ base_domain = <<>>
  /\ results = EmptyResults
  /\ all_signals = NoSignals
  /\ homepage = NoPage
  /\ scored_links = <<>>
  /\ priority_links = <<>>
  /\ idx = 1
  /\ broke = FALSE
  /\ elapsed = 0
  /\ get_calls = <<>>
  /\ skipped = {}
  /\ crawls = 0
  /\ loop_page = NoPage
  /\ fn_call \in PageInputs

\* fault variant of scrape_page_get: a request that raised is sent again
scrape_page_get_retry ==
  /\ fn_call.fn \in {"none", "session.get"}
  /\ fn_call.fn = "session.get" => (fn_call.resp.status = 0 /\ fn_call.requests < 2)
  /\ fn_call' = [fn_call EXCEPT !.fn = "session.get", !.requests = @ + 1]
  /\ UNCHANGED crawl_vars

\* response = self.session.get(url, timeout=7, allow_redirects=True)
scrape_page_get ==
  /\ fn_call.fn = "none"
  /\ fn_call' = [fn_call EXCEPT !.fn = "session.get", !.requests = @ + 1]
  /\ UNCHANGED crawl_vars

\* the rest of scrape_page, up to one of its three return statements
scrape_page_return ==
  /\ fn_call.fn = "session.get"
  /\ fn_call' = [fn_call EXCEPT !.fn = "scrape_page"]
                  @@ [ret |-> scrape_page(fn_call.url, fn_call.resp)]
  /\ UNCHANGED crawl_vars

PageNext ==
  \/ scrape_page_get
  \/ scrape_page_return

PageSpec == PageInit /\ [][PageNext]_vars

(***************************************************************************)
(* Properties of crawl_website                                             *)
(***************************************************************************)
\* the crawl has returned
Returned == pc = "done"

\* the URLs of the page records, normalized
NormalizedPages ==
  [i \in 1..Len(results.pages_scraped) |-> normalized_of[results.pages_scraped[i].url]]

\* C1: budget invariant: whatever max_pages was configured and however the
\* site behaves, the page_count of the returned result is at most max_pages
C1_PageCountWithinBudget == Returned => results.page_count <= max_pages

\* C2: when the homepage scrape is unsuccessful (the fetch failed or the
\* language filter rejected the text) the returned result has an error
\* field, page_count 0 and no page record, and the homepage request is the
\* only request of the crawl
C2_HomepageFailureIsFatal ==
  (Returned /\ ~homepage.success) =>
     /\ "error" \in DOMAIN results
     /\ results.page_count = 0
     /\ results.pages_scraped = <<>>
     /\ Len(get_calls) = 1

\* a crawl whose homepage was served but rejected by the language filter
C2_Witness ==
  /\ Returned
  /\ ~homepage.success
  /\ homepage.error = <<"Non-English content">>
  /\ get_calls = << <<start_url, FALSE>> >>

\* C3: no duplicate visits: no two page records of a crawl have the same
\* normalized URL, and on a fresh scraper every page record accounts for
\* exactly one member of the visited set
C3_NoDuplicateVisits ==
  /\ \A i, j \in 1..Len(results.pages_scraped) :
        NormalizedPages[i] = NormalizedPages[j] => i = j
  /\ crawls <= 1 => Cardinality(visited_urls) = Len(results.pages_scraped)

\* a crawl that found a candidate already visited and passed over it
C3_Witness ==
  /\ Returned
  /\ skipped # {}
  /\ Len(results.pages_scraped) = 2
  /\ crawls = 1

\* C4: in every state of a crawl, and so in the returned result, page_count
\* is the number of page records
C4_PageCountIsLength == results.page_count = Len(results.pages_scraped)

\* a crawl that returned the homepage and two more pages
C4_Witness == Returned /\ results.page_count = 3

\* this step scrapes a candidate of the ranked list, and the scrape is
\* unsuccessful: the request failed or the language filter rejected the text
FailedCandidateFetch ==
  /\ pc = "loop"
  /\ Len(get_calls') = Len(get_calls) + 1
  /\ ~get_calls'[Len(get_calls')][2]

\* the URLs of the page records are the URLs of the successful requests, in
\* the order of the requests
SuccessfulCalls == SelectSeq(get_calls, LAMBDA c : c[2])

PagesAreSuccessfulCalls ==
  /\ Len(results.pages_scraped) = Len(SuccessfulCalls)
  /\ \A k \in 1..Len(SuccessfulCalls) :
        results.pages_scraped[k].url = SuccessfulCalls[k][1]

\* the positions of priority_links the loop has passed and scraped
Attempted == {i \in 1..(idx - 1) : i \notin skipped}

\* C5: an unsuccessful scrape of a candidate never aborts the crawl: the
\* loop stays in the ranked list and moves to the next candidate, no error
\* is recorded and no page record is lost; the pages scraped before and
\* after the failure are all in the result, and a crawl that returns without
\* the timeout check firing has been through every candidate of the list
C5_CandidateFailureIsSkipped ==
  /\ [][FailedCandidateFetch =>
          /\ pc' = "loop"
          /\ idx' = idx + 1
          /\ "error" \notin DOMAIN results'
          /\ results'.pages_scraped = results.pages_scraped]_vars
  /\ [](PagesAreSuccessfulCalls)
  /\ []((Returned /\ homepage.success /\ ~broke) =>
          /\ idx = Len(priority_links) + 1
          /\ Cardinality(Attempted) = Len(get_calls) - 1)

\* a crawl that scraped the homepage, failed on the first candidate and
\* scraped the second
C5_Witness ==
  /\ Returned
  /\ Len(get_calls) = 3
  /\ get_calls[1][2]
  /\ ~get_calls[2][2]
  /\ get_calls[3][2]
  /\ Len(results.pages_scraped) = 2

\* C6: the returned result has an error field exactly when the homepage
\* scrape was unsuccessful; a crawl that stopped at the page cap or at the
\* timeout, or that skipped failed candidates, returns without one
C6_ErrorIffHomepageFailed ==
  Returned => (("error" \in DOMAIN results) <=> ~homepage.success)

\* a crawl that failed on a candidate and was then stopped by the timeout
C6_Witness ==
  /\ Returned
  /\ broke
  /\ homepage.success
  /\ \E k \in 2..Len(get_calls) : ~get_calls[k][2]
  /\ "error" \notin DOMAIN results

\* C7: frame condition of a skipped page: an unsuccessful scrape of a
\* candidate leaves the visited set, pages_scraped, total_text, page_count
\* and the aggregated signals as they were
C7_SkippedPageFrame ==
  [][FailedCandidateFetch =>
       /\ visited_urls' = visited_urls
       /\ results'.pages_scraped = results.pages_scraped
       /\ results'.total_text = results.total_text
       /\ results'.page_count = results.page_count
       /\ all_signals' = all_signals]_vars

\* a crawl in the loop whose last request failed, after a candidate with
\* signals was stored
C7_Witness ==
  /\ pc = "loop"
  /\ Len(get_calls) = 3
  /\ get_calls[2][2]
  /\ ~get_calls[3][2]
  /\ results.page_count = 2
  /\ "stock_exchange" \in DOMAIN all_signals

OrderMaps == [1..Len(scored_links) -> 1..Len(homepage.links)]

RankedInDocumentOrder ==
  \E pos \in OrderMaps :
    /\ \A i \in 1..Len(scored_links) :
          /\ scored_links[i][2] = homepage.links[pos[i]].url
          /\ scored_links[i][3] = homepage.links[pos[i]].text
    /\ \A i, j \in 1..Len(scored_links) :
          i < j => \/ scored_links[i][1] > scored_links[j][1]
                   \/ /\ scored_links[i][1] = scored_links[j][1]
                      /\ pos[i] < pos[j]

\* the n-th position of priority_links that the loop scraped
NthAttempted(n) ==
  CHOOSE i \in Attempted : Cardinality({j \in Attempted : j <= i}) = n

\* C9: candidates are fetched one at a time in ranked order: the ranked
\* list is non-increasing in score with equal scores in the order of the
\* links on the homepage, priority_links is its head, and the requests
\* after the homepage go through priority_links from front to back
C9_FetchedInRankedOrder ==
  homepage.success =>
    /\ RankedInDocumentOrder
    /\ Len(priority_links) <= Len(scored_links)
    /\ \A i \in 1..Len(priority_links) : priority_links[i] = scored_links[i]
    /\ Cardinality(Attempted) = Len(get_calls) - 1
    /\ \A n \in 1..(Len(get_calls) - 1) :
          get_calls[n + 1][1] = priority_links[NthAttempted(n)][2]
    /\ \A m, n \in 1..(Len(get_calls) - 1) :
          m < n => priority_links[NthAttempted(m)][1]
                     >= priority_links[NthAttempted(n)][1]

\* a crawl whose homepage lists the low-scoring /x first and then two
\* links of equal score, both of which were fetched
C9_Witness ==
  /\ Returned
  /\ Len(homepage.links) = 3
  /\ homepage.links[1].url = UrlX
  /\ Len(get_calls) = 3
  /\ get_calls[2][1] = UrlAbout
  /\ get_calls[3][1] = UrlTeam
  /\ priority_links[1][1] = priority_links[2][1]

\* the smaller of two numbers
Min(a, b) == IF a <= b THEN a ELSE b

\* the candidates of the ranked list, counted as distinct pages
DistinctCandidates ==
  {normalized_of[scored_links[i][2]] : i \in 1..Len(scored_links)}

\* C10: with max_pages = M >= 1 and n scored candidates on the homepage,
\* when every fetch succeeds and the timeout is not reached, exactly
\* min(n, M - 1) candidates are fetched after the homepage; n is taken
\* either as the number of entries of the ranked list or as the number of
\* distinct pages in it
C10_TopCandidatesFetched ==
  ( /\ Returned
    /\ max_pages >= 1
    /\ ~broke
    /\ \A k \in 1..Len(get_calls) : get_calls[k][2] ) =>
      \/ Len(get_calls) - 1 = Min(Len(scored_links), max_pages - 1)
      \/ Len(get_calls) - 1 = Min(Cardinality(DistinctCandidates), max_pages - 1)

\* this step issues a request for a candidate of the ranked list
CandidateFetch == pc = "loop" /\ Len(get_calls') = Len(get_calls) + 1

\* C11: the elapsed time is checked before every fetch of a candidate: a
\* request for a candidate is issued only while the time elapsed since the
\* start of the crawl does not exceed the configured timeout, and once it
\* exceeds it the loop issues no further request and the crawl returns
C11_TimeoutCheckedBeforeFetch ==
  /\ [][CandidateFetch => elapsed <= timeout]_vars
  /\ [][(pc = "loop" /\ elapsed > timeout) =>
          (get_calls' = get_calls /\ pc' = "done")]_vars

\* a crawl that fetched a candidate, ran over the timeout doing so, and was
\* stopped by the check with a candidate left in the list
C11_Witness ==
  /\ Returned
  /\ broke
  /\ elapsed > timeout
  /\ Len(get_calls) = 2
  /\ idx = 2
  /\ Len(priority_links) = 2

\* the candidate at position i of the ranked list has been attempted: a
\* request was issued for its URL, or its page is in the visited set
CandidateAttempted(i) ==
  \/ \E k \in 2..Len(get_calls) : get_calls[k][1] = scored_links[i][2]
  \/ normalized_of[scored_links[i][2]] \in visited_urls

\* C12: the loop stops only at the page cap, at the timeout or when the
\* candidates are exhausted: a crawl that returns without the timeout check
\* firing and with page_count < max_pages has attempted every homepage link
\* that passed validation and scoring
C12_StopsOnlyAtCapTimeoutOrExhaustion ==
  ( /\ Returned
    /\ homepage.success
    /\ ~broke
    /\ results.page_count < max_pages ) =>
      \A i \in 1..Len(scored_links) : CandidateAttempted(i)

\* the corpus that the first k page records stand for: the homepage text
\* and a blank line, then for every further page its heading and its text
RECURSIVE CorpusOf(_)
CorpusOf(k) ==
  IF k = 0 THEN <<>>
  ELSE IF k = 1
  THEN body_of[results.pages_scraped[1].url] \o <<"\n","\n">>
  ELSE CorpusOf(k - 1)
         \o <<"\n","\n","=","=","="," ">> \o results.pages_scraped[k].title
         \o <<" ","=","=","=","\n","\n">> \o body_of[results.pages_scraped[k].url]

\* C13: total_text holds the text of every successfully crawled page exactly
\* once, in the order of pages_scraped with the homepage first, and nothing
\* of a failed or skipped page: the page records are the successful
\* requests, and total_text is the corpus of the page records
C13_CorpusInCrawlOrder ==
  /\ PagesAreSuccessfulCalls
  /\ results.total_text = CorpusOf(Len(results.pages_scraped))
  /\ \A k \in 1..Len(results.pages_scraped) :
        results.pages_scraped[k].text_length = Len(body_of[results.pages_scraped[k].url])

\* a crawl that stored the homepage, then /team, failed on /about
C13_Witness ==
  /\ Returned
  /\ Len(get_calls) = 3
  /\ get_calls[2] = <<UrlTeam, TRUE>>
  /\ get_calls[3] = <<UrlAbout, FALSE>>
  /\ Len(results.total_text) > Len(body_of[UrlTeam]) + Len(body_of[start_url])

(***************************************************************************)
(* Properties of the URL functions                                         *)
(***************************************************************************)
\* the call under examination was made to fn
Called(fn) == fn_call.fn = fn

\* the URL, link text and context of the call match no topical keyword, no
\* link-text phrase and no combination
NoTopicalMatch ==
  /\ \A k \in Range(priority_keywords) : ~Contains(Lower(fn_call.url), k)
  /\ \A p \in Range(priority_link_texts) : ~Contains(Strip(Lower(fn_call.text)), p)
  /\ \A k \in Range(priority_keywords) : ~Contains(Strip(Lower(fn_call.context)), k)
  /\ \A i \in 1..Len(high_value_combos) :
        \/ ~Contains(Lower(fn_call.url \o fn_call.text \o fn_call.context),
                     high_value_combos[i][1])
        \/ ~Contains(Lower(fn_call.url \o fn_call.text \o fn_call.context),
                     high_value_combos[i][2])

\* C14: floor rule: a same-domain URL that passes is_valid_url and matches
\* no keyword, link-text phrase, context keyword or combination is scored
\* 1 by score_url_priority, whatever the depth of its path
C14_FloorRule ==
  ( /\ Called("score_url_priority")
    /\ is_valid_url(fn_call.url, fn_call.domain)
    /\ NoTopicalMatch ) => fn_call.ret = 1

\* pairs of paths: the second is the first with one more occurrence of a
\* topical keyword in the same path segment ("about" again, or "team")
OneMoreKeyword ==
  { << <<"/","a","b","o","u","t">>,
       <<"/","a","b","o","u","t","-","a","b","o","u","t">> >>,
    << <<"/","a","b","o","u","t">>,
       <<"/","a","b","o","u","t","-","t","e","a","m">> >> }

\* C15: score monotonicity: with the link text and the context held fixed,
\* one more occurrence of a topical keyword in the path of the URL raises
\* the value of score_url_priority by exactly 10
C15_ScoreMonotone ==
  \A s \in SchemeParts, h \in HostParts, t \in TailParts, pp \in OneMoreKeyword :
    ( /\ Called("score_url_priority")
      /\ fn_call.url = s \o h \o pp[2] \o t ) =>
        fn_call.ret = score_url_priority(s \o h \o pp[1] \o t, fn_call.text,
                                         fn_call.context) + 10

\* the tails that leave the page the same: nothing, a trailing slash, a
\* fragment
SamePageTails == {<<>>, <<"/">>, <<"#","f">>}

\* normalize_url gives the URL of the call the value it gives the same URL
\* without its trailing slash or fragment
SlashAndFragmentDropped ==
  \A s \in SchemeParts, h \in HostParts, p \in PathParts, t \in SamePageTails :
    (Called("normalize_url") /\ fn_call.url = s \o h \o p \o t) =>
       fn_call.ret = normalize_url(s \o h \o p)

\* normalize_url applied to its own result returns that result
NormalizeIdempotent ==
  Called("normalize_url twice") => fn_call.ret = normalize_url(fn_call.url)

\* C16: normalize_url is idempotent on every URL string, strings without a
\* scheme included, and two URLs that differ only by a trailing slash or a
\* fragment have the same normalized form
C16_NormalizeIdempotent == NormalizeIdempotent /\ SlashAndFragmentDropped

(***************************************************************************)
(* Further properties of crawl_website                                     *)
(***************************************************************************)
\* what the seed is to become: a seed that starts with http:// or https://
\* is kept, any other seed gets https:// in front
NormalizedSeed(seed) ==
  IF \/ StartsWith(seed, <<"h","t","t","p",":","/","/">>)
     \/ StartsWith(seed, <<"h","t","t","p","s",":","/","/">>)
  THEN seed
  ELSE <<"h","t","t","p","s",":","/","/">> \o seed

\* C17: seed normalization: a seed without a scheme is turned into
\* 'https://' + seed and a seed that starts with http:// or https:// is used
\* as it is; the homepage fetch, the base domain and base_url of the result
\* all use this normalized seed
C17_SeedNormalized ==
  pc # "idle" =>
    \E seed \in Seeds :
      /\ start_url = NormalizedSeed(seed)
      /\ results.base_url = NormalizedSeed(seed)
      /\ base_domain = urlparse(NormalizedSeed(seed)).netloc
      /\ get_calls # <<>> => get_calls[1][1] = NormalizedSeed(seed)

(***************************************************************************)
(* Further properties of the URL functions                                 *)
(***************************************************************************)
\* host is the domain itself or a subdomain of it
SameSite(host, domain) ==
  host = domain \/ EndsWith(host, <<".">> \o domain)

\* C18: no cross-domain page is fetched: is_valid_url rejects every URL
\* whose host is not on the domain of the seed, so that only URLs of the
\* seed's domain reach the ranked list
C18_CrossDomainRejected ==
  (Called("is_valid_url") /\ fn_call.ret) =>
     SameSite(urlparse(fn_call.url).netloc, fn_call.domain)

(***************************************************************************)
(* Properties of the validation filter inside crawl_website                *)
(***************************************************************************)
\* the URL ends in a listed extension or contains a listed substring
ListedForRejection(url) ==
  \/ \E ext \in Range(skip_extensions) : EndsWith(Lower(url), ext)
  \/ \E pattern \in Range(skip_patterns) : Contains(Lower(url), pattern)

listed_of == Table([u \in SiteUrls |-> ListedForRejection(u)])

\* C19: validation rejection is a silent filter before any fetch: a
\* homepage link whose URL ends in a listed extension or contains a listed
\* substring is never requested, never gets a page record, and the result
\* carries no error field because of it
C19_RejectedLinksNeverFetched ==
  homepage.success =>
    \A i \in 1..Len(homepage.links) :
      listed_of[homepage.links[i].url] =>
        /\ \A k \in 2..Len(get_calls) : get_calls[k][1] # homepage.links[i].url
        /\ \A k \in 2..Len(results.pages_scraped) :
              results.pages_scraped[k].url # homepage.links[i].url
        /\ "error" \notin DOMAIN results

(***************************************************************************)
(* Properties of the time a crawl takes                                    *)
(***************************************************************************)
\* C20: when crawl_website returns, the time elapsed since its start
\* exceeds the configured timeout by at most the duration of one fetch,
\* which is at most the per-request timeout
C20_OvershootAtMostOneFetch ==
  Returned => elapsed <= timeout + RequestTimeout

(***************************************************************************)
(* Properties of the candidate list                                        *)
(***************************************************************************)
\* C21: within one crawl no URL is requested more than once, a URL whose
\* request failed or whose text was rejected by the language filter
\* included: a page that two anchors of the homepage lead to is considered
\* once, so there is no retry and no revisit
C21_NoUrlFetchedTwice ==
  \A j, k \in 1..Len(get_calls) :
    normalized_of[get_calls[j][1]] = normalized_of[get_calls[k][1]] => j = k

\* the homepage links that pass is_valid_url and are not the homepage
\* itself, as positions of homepage.links
ValidatedLinks ==
  {i \in 1..Len(homepage.links) :
     /\ valid_of[<<homepage.links[i].url, base_domain>>]
     /\ normalized_of[homepage.links[i].url] # normalized_of[start_url]}

\* C22: every homepage link that passes is_valid_url and is not already
\* visited is placed in the scored candidate list, a link without any
\* topical signal included: no validated link is dropped for its score
C22_ValidatedLinksAreCandidates ==
  (homepage.success /\ crawls = 1) =>
    \A i \in ValidatedLinks :
      \E k \in 1..Len(scored_links) :
        /\ scored_links[k][2] = homepage.links[i].url
        /\ scored_links[k][3] = homepage.links[i].text

(***************************************************************************)
(* Properties of the path-depth penalty and of the validator               *)
(***************************************************************************)
\* the number of segments of the path of url
PathSegments(url) ==
  LET path == urlparse(url).path
  IN Cardinality({i \in 1..Len(path) :
                    path[i] # "/" /\ (i = 1 \/ path[i - 1] = "/")})

\* 2 * max(0, s - 3) for the s path segments of url
SegmentPenalty(url) ==
  IF PathSegments(url) > 3 THEN 2 * (PathSegments(url) - 3) ELSE 0

\* C23: the path-depth penalty that score_url_priority subtracts is
\* 2 * max(0, s - 3) for a URL of s path segments, so a URL of at most 3
\* segments gets none: a URL without any topical match is scored 1 when its
\* path has at most 3 segments, and minus the penalty when it has more
C23_PenaltyPerSegmentBeyondThree ==
  (Called("score_url_priority") /\ NoTopicalMatch) =>
     fn_call.ret = IF SegmentPenalty(fn_call.url) = 0 THEN 1
                   ELSE 0 - SegmentPenalty(fn_call.url)

\* the substrings of skip_patterns that stand for authentication, commerce,
\* legal, administrative and feed pages, and those that stand for schemes
\* that do not navigate
UtilityPatterns == SubSeq(skip_patterns, 1, 25)
SchemePatterns == SubSeq(skip_patterns, 27, 29)

\* a reference that is nothing but a fragment, resolved against a page
\* that has no path
PureFragmentReference(url) ==
  /\ Contains(url, <<"#">>)
  /\ urlparse(url).path = <<>>
  /\ urlparse(url).query = <<>>

\* C24: is_valid_url accepts every same-domain URL that does not end in a
\* listed extension, contains no listed authentication, commerce, legal,
\* administrative or feed substring, and is no javascript:, mailto:, tel: or
\* pure-fragment reference; a same-domain page URL with a fragment after a
\* path that is not empty is accepted
C24_OtherSameDomainUrlsValid ==
  ( /\ Called("is_valid_url")
    /\ SameSite(urlparse(fn_call.url).netloc, fn_call.domain)
    /\ \A ext \in Range(skip_extensions) :
          /\ ~EndsWith(Lower(fn_call.url), ext)
          /\ ~EndsWith(Lower(urlparse(fn_call.url).path), ext)
    /\ \A pattern \in Range(UtilityPatterns) : ~Contains(Lower(fn_call.url), pattern)
    /\ \A pattern \in Range(SchemePatterns) : ~Contains(Lower(fn_call.url), pattern)
    /\ ~PureFragmentReference(fn_call.url) ) => fn_call.ret

(***************************************************************************)
(* Properties of the single pass                                           *)
(***************************************************************************)
\* the URLs of the links found on the homepage
HomepageLinkUrls == {homepage.links[i].url : i \in 1..Len(homepage.links)}

\* C25: single pass: the candidates are extracted, validated and scored
\* once, from the homepage only: the ranked list and its head are not
\* changed by the loop, every URL requested after the homepage is the target
\* of a link found on the homepage, and a link found on a page crawled later
\* is never followed
C25_SinglePassFromHomepage ==
  /\ [][pc = "loop" =>
          (scored_links' = scored_links /\ priority_links' = priority_links)]_vars
  /\ [](\A k \in 2..Len(get_calls) : get_calls[k][1] \in HomepageLinkUrls)

\* a crawl of a homepage that links to /about only: the page /about was
\* scraped and carries a link to /team, and the crawl returned without a
\* request for /team
C25_Witness ==
  /\ Returned
  /\ max_pages = 3
  /\ HomepageLinkUrls = {UrlAbout}
  /\ loop_page.success
  /\ loop_page.url = UrlAbout
  /\ Len(loop_page.links) = 1
  /\ loop_page.links[1].url = UrlTeam
  /\ Len(get_calls) = 2

(***************************************************************************)
(* Properties of the aggregated enterprise signals                         *)
(***************************************************************************)
\* re.findall of every pattern on the texts the site serves
matches_of ==
  Table([t \in SiteBodies |->
           Table([name \in DOMAIN enterprise_patterns |->
                    FindAllFrom(enterprise_patterns[name], Lower(t), 1)])])

\* the matches of one pattern on the first k pages of pages_scraped, one
\* page after the other
RECURSIVE MatchesUpTo(_, _)
MatchesUpTo(name, k) ==
  IF k = 0 THEN <<>>
  ELSE MatchesUpTo(name, k - 1)
         \o matches_of[body_of[results.pages_scraped[k].url]][name]

\* the signal map that the page records stand for
SignalsOfPages ==
  LET n == Len(results.pages_scraped)
  IN [name \in {m \in DOMAIN enterprise_patterns : MatchesUpTo(m, n) # <<>>} |->
        MatchesUpTo(name, n)]

\* C26: the enterprise_signals map of the result holds, for each signal
\* name, the match lists of the successfully crawled pages one after the
\* other in crawl order, the homepage first, without deduplication; failed
\* and skipped pages add nothing, and every key maps to a list that is not
\* empty
C26_SignalsConcatenatedInCrawlOrder ==
  /\ PagesAreSuccessfulCalls
  /\ (pc \in {"loop", "done"} /\ homepage.success) => all_signals = SignalsOfPages
  /\ Returned => results.enterprise_signals = SignalsOfPages
  /\ \A name \in DOMAIN results.enterprise_signals :
        results.enterprise_signals[name] # <<>>

\* a crawl that stored the homepage, /about and /team: nasdaq is listed
\* twice, and the key of /team came last
C26_Witness ==
  /\ Returned
  /\ Len(get_calls) = 3
  /\ get_calls[2] = <<UrlAbout, TRUE>>
  /\ get_calls[3] = <<UrlTeam, TRUE>>
  /\ DOMAIN results.enterprise_signals = {"stock_exchange", "fortune"}
  /\ results.enterprise_signals["stock_exchange"] =
       << <<"n","a","s","d","a","q">>, <<"n","y","s","e">>, <<"n","a","s","d","a","q">> >>
  /\ results.enterprise_signals["fortune"] =
       << <<"f","o","r","t","u","n","e"," ","5","0","0">> >>

(***************************************************************************)
(* Properties of scrape_page                                               *)
(***************************************************************************)
\* the record of a failure: success False, no text, no links, an error
FailureRecord(ret) ==
  /\ ~ret.success
  /\ ret.text = <<>>
  /\ ret.links = <<>>
  /\ "error" \in DOMAIN ret

\* the request raised, the status is an error status, or the parser raised
RequestOrParsingFault ==
  \/ fn_call.resp.status = 0
  \/ fn_call.resp.status >= 400
  \/ fn_call.resp.fault # "none"

\* the page was received and parsed, and langdetect was run on its text
DetectorRun ==
  /\ ~RequestOrParsingFault
  /\ Len(Strip(fn_call.resp.body)) >= 50

\* langdetect raised LangDetectException
LanguageDetectionFault ==
  DetectorRun /\ fn_call.resp.lang = "LangDetectException"

\* C27 as stated: scrape_page never raises: after a transport error, a
\* timeout, an error status, a parsing fault or a language-detection fault it
\* returns a record with success False, no text, no links and an error
\* reason that is not empty, and it has made exactly one request
C27_EveryFaultIsAFailureRecord ==
  (Called("scrape_page") /\ (RequestOrParsingFault \/ LanguageDetectionFault)) =>
     /\ FailureRecord(fn_call.ret)
     /\ fn_call.ret.error # <<>>
     /\ fn_call.requests = 1

\* C27, amended: scrape_page never raises and makes exactly one request per
\* call: after a transport error, a timeout, an error status or a parsing
\* fault it returns the record of a failure, whose error is str(e); for a
\* text langdetect names another language for, the record of a failure
\* whose error is 'Non-English content'; a LangDetectException is no
\* failure: the text is taken as English and the page is returned with its
\* text and links
C27_FailuresAreRecordsDetectorFailsOpen ==
  Called("scrape_page") =>
     /\ fn_call.requests = 1
     /\ RequestOrParsingFault => FailureRecord(fn_call.ret)
     /\ (DetectorRun /\ fn_call.resp.lang \notin {"en", "LangDetectException"}) =>
           /\ FailureRecord(fn_call.ret)
           /\ fn_call.ret.error = <<"Non-English content">>
     /\ LanguageDetectionFault =>
           /\ fn_call.ret.success
           /\ fn_call.ret.text = fn_call.resp.body
           /\ fn_call.ret.links = fn_call.resp.anchors

\* a call whose request ran into the timeout
C27_Witness ==
  /\ Called("scrape_page")
  /\ fn_call.resp.fault = "Timeout"
  /\ fn_call.requests = 1
  /\ ~fn_call.ret.success
  /\ fn_call.ret.error = <<"Timeout">>

(***************************************************************************)
(* Termination of crawl_website                                            *)
(***************************************************************************)
\* C28: termination: whatever links the homepage carries and however the
\* requests end, a call of crawl_website returns, after at most one request
\* for the homepage and one request for each entry kept in the ranked list
C28_CrawlTerminates ==
  /\ (pc \in {"homepage", "loop"}) ~> Returned
  /\ [](Len(get_calls) <= 1 + Len(priority_links))
  /\ [](pc = "loop" => Len(get_calls) <= idx)

\* a crawl that returned after a request for the homepage and for each of
\* the two entries of priority_links, one of which failed
C28_Witness ==
  /\ Returned
  /\ Len(priority_links) = 2
  /\ Len(get_calls) = 3
  /\ ~get_calls[2][2]
  /\ ~broke

(***************************************************************************)
(* Properties of the visited set across calls                              *)
(***************************************************************************)
\* the ranked list that a scraper without earlier calls builds from the
\* links of the homepage: only the homepage itself is visited
FreshCandidates ==
  SortByScore(ScoreLinks(homepage.links, {normalized_of[start_url]}, base_domain))

\* C29: the visited set is scoped to one crawl: what crawl_website does for
\* a seed and the responses of the site does not depend on earlier calls
\* made on the same scraper; a page crawled in an earlier call is a
\* candidate again in a later one, so the ranked list is the one a fresh
\* scraper builds
C29_VisitedSetScopedToCrawl ==
  homepage.success => scored_links = FreshCandidates

(***************************************************************************)
(* Properties of URLs that differ in their query string                    *)
(***************************************************************************)
\* two different URLs with the same scheme, host, path and fragment
DifferOnlyInQuery(u, v) ==
  /\ u # v
  /\ urlparse(u).scheme = urlparse(v).scheme
  /\ urlparse(u).netloc = urlparse(v).netloc
  /\ urlparse(u).path = urlparse(v).path
  /\ urlparse(u).params = urlparse(v).params
  /\ urlparse(u).fragment = urlparse(v).fragment

twins_of == Table([p \in SiteUrls \X SiteUrls |-> DifferOnlyInQuery(p[1], p[2])])

\* URLs that differ only in their query string have one normalized form
TwinsNormalizeAlike ==
  \A p \in SiteUrls \X SiteUrls :
    twins_of[p] => normalized_of[p[1]] = normalized_of[p[2]]

\* C30: normalize_url keeps the scheme, the host and the path only, so two
\* candidate URLs that differ only in their query string have the same
\* normalized form, and within one crawl at most one of the two is scraped
\* successfully and gets a page record
C30_QueryTwinsFetchedOnce ==
  /\ TwinsNormalizeAlike
  /\ \A j, k \in 1..Len(get_calls) :
        (get_calls[j][2] /\ get_calls[k][2]) =>
           ~twins_of[<<get_calls[j][1], get_calls[k][1]>>]
  /\ \A j, k \in 1..Len(results.pages_scraped) :
        ~twins_of[<<results.pages_scraped[j].url, results.pages_scraped[k].url>>]

\* a crawl whose homepage links to /about and to /about?p: /about was
\* scraped and /about?p was passed over
C30_Witness ==
  /\ Returned
  /\ Len(priority_links) = 2
  /\ priority_links[1][2] = UrlAbout
  /\ priority_links[2][2] = UrlAboutQuery
  /\ get_calls = << <<start_url, TRUE>>, <<UrlAbout, TRUE>> >>
  /\ skipped = {2}
  /\ Len(results.pages_scraped) = 2

====
